---- MODULE Spec2Model ----
(***************************************************************************)
(* Recipe costing of the cocktails app: unit conversion, compute_totals,   *)
(* compute_price and the operations that write the rows they read.         *)
(*                                                                         *)
(* Python Decimals are modelled exactly, as integers counting a fixed      *)
(* quantum:                                                                *)
(*   amount_input, amount_oz, ounces        units of 0.0001 (decimal_places=4) *)
(*   abv_percent                            units of 0.01   (decimal_places=2) *)
(*   cost_per_oz, money, labor, increment   units of 0.01   (cents)        *)
(*   markup / overhead percentages          units of 1 percent             *)
(* A Decimal that need not lie on the 0.0001 grid (the result of the       *)
(* to_oz routines) is a fraction [n |-> numerator, d |-> denominator] of   *)
(* an ounce.  Python's None is the empty tuple <<>>; an optional value v   *)
(* that is present is <<v>>; an object is the record of its attributes,    *)
(* None being the record with no attribute.                                *)
(***************************************************************************)
EXTENDS Integers, Sequences, FiniteSets, TLC

VARIABLES
    ingredients,           \* table "ingredients": name -> [abv_percent, cost_per_oz]
    cocktail_ingredients,  \* table "cocktail_ingredients": the set of its rows
    settings,              \* table "settings": sequence of PricingSettings rows (0 or 1)
    result,                \* what the last call or command returned or reported
    conv,                  \* what the last call of the unit converters returned
    cocktails,             \* table "cocktails": sequence of rows, the row of pk k at index k
    requests               \* admin requests in flight: request -> its position and object

vars == <<ingredients, cocktail_ingredients, settings, result, conv, cocktails, requests>>

None == <<>>

\* getattr(obj, name, None): a NULL column is an attribute the record lacks
GetAttr(obj, name) == IF name \in DOMAIN obj THEN <<obj[name]>> ELSE None

Abs(n) == IF n < 0 THEN -n ELSE n

Sign(n) == IF n < 0 THEN -1 ELSE 1

\* Decimal.quantize(..., rounding=ROUND_HALF_UP) of n/d to an integer:
\* nearest, ties away from zero.
RoundHalfUp(n, d) ==
    LET a == Abs(n)
        b == Abs(d)
        q == a \div b
        r == a % b
        m == IF 2 * r >= b THEN q + 1 ELSE q
    IN  Sign(n) * Sign(d) * m

\* Decimal.quantize(...) under the default context (ROUND_HALF_EVEN) of n/d
\* to an integer: nearest, ties to the even neighbour.
RoundHalfEven(n, d) ==
    LET a == Abs(n)
        b == Abs(d)
        q == a \div b
        r == a % b
        m == IF 2 * r > b \/ (2 * r = b /\ q % 2 = 1) THEN q + 1 ELSE q
    IN  Sign(n) * Sign(d) * m

\* ---------------------------------------------------------------- units

\* The unit strings of the model; Lower is str.lower() on them.
UnitStrings == {"oz", "OZ", "ml", "dash", "Dash", "leaf", "wedge", "ounce", "cup", ""}

Lower(s) ==
    CASE s = "OZ" -> "oz"
      [] s = "Dash" -> "dash"
      [] OTHER -> s

\* (unit_input or "") for an optional unit string
OrEmpty(unit) == IF unit = None THEN "" ELSE unit[1]

\* pricing._UNIT_TO_OZ, the multipliers in hundredths (0.03 is 3)
_UNIT_TO_OZ == [oz |-> 100, dash |-> 3, leaf |-> 0, wedge |-> 0]

\* mutant of _to_decimal: None becomes Decimal("1")
ToDecimal_NoneAsOne(val) == IF val = None THEN 1 ELSE val[1]

\* pricing._to_decimal on an optional number: None becomes Decimal("0")
_to_decimal(val) == IF val = None THEN 0 ELSE val[1]

\* mutant of _amount_to_oz: a unit missing from the table counts as ounces
\* (the fallback of metrics._to_oz) instead of as zero volume
AmountToOz_UnknownAsOz(amount_input, unit_input) ==
    LET unit == Lower(OrEmpty(unit_input))
        mult == IF unit \in DOMAIN _UNIT_TO_OZ THEN _UNIT_TO_OZ[unit] ELSE 100
    IN  RoundHalfEven(_to_decimal(amount_input) * mult, 100)

\* mutant of _amount_to_oz: quantize(Decimal("0.01")) instead of "0.0001"
AmountToOz_TwoPlaces(amount_input, unit_input) ==
    LET unit == Lower(OrEmpty(unit_input))
        mult == IF unit \in DOMAIN _UNIT_TO_OZ THEN _UNIT_TO_OZ[unit] ELSE 0
    IN  RoundHalfEven(_to_decimal(amount_input) * mult, 10000) * 100

\* pricing._amount_to_oz: ounces in units of 0.0001.  amount * mult counts
\* 0.000001 oz; quantize(Decimal("0.0001")) rounds it half-even to 0.0001.
_amount_to_oz(amount_input, unit_input) ==
    LET unit == Lower(OrEmpty(unit_input))
        mult == IF unit \in DOMAIN _UNIT_TO_OZ THEN _UNIT_TO_OZ[unit] ELSE 0
    IN  RoundHalfEven(_to_decimal(amount_input) * mult, 100)

\* The fraction of an ounce n/d
Frac(n, d) == [n |-> n, d |-> d]

\* ML_PER_OZ: Decimal("29.5735") in units of 0.0001
ML_PER_OZ == 295735

\* The 0.0001 grid: an amount of k units is k / OzQuantum ounces
OzQuantum == 10000

\* backfill_amount_oz.to_oz: a fraction of an ounce
to_oz(amount, unit) ==
    IF amount = None THEN Frac(0, OzQuantum)
    ELSE LET u == Lower(OrEmpty(unit))
             amt == amount[1]
         IN  IF u = "oz" THEN Frac(amt, OzQuantum)
             ELSE IF u = "ml" THEN Frac(amt, ML_PER_OZ)
             ELSE Frac(0, OzQuantum)

\* admin/cocktails._to_oz: a fraction of an ounce
_to_oz(amount, unit) ==
    IF amount = None THEN Frac(0, OzQuantum)
    ELSE LET u == Lower(OrEmpty(unit))
             amt == amount[1]
         IN  IF u = "oz" THEN Frac(amt, OzQuantum)
             ELSE IF u = "ml" THEN Frac(amt, ML_PER_OZ)
             ELSE Frac(0, OzQuantum)

\* ---------------------------------------------------------------- state

\* Rows of table "cocktails", by name
Cocktails == {"Blow Job", "Negroni"}

\* The rows of table "cocktails" before the first request, pk 1 and pk 2: the
\* cocktails the recipe lines refer to by name
CocktailRows ==
    << [name |-> "Blow Job", slug |-> "blow-job", status |-> "draft"],
       [name |-> "Negroni", slug |-> "negroni", status |-> "draft"] >>

\* Rows of table "ingredients": abv_percent in units of 0.01, cost_per_oz in cents
IngredientRows ==
    ("Amaretto" :> [abv_percent |-> 2800, cost_per_oz |-> 50]) @@
    ("Irish Cream Liqueur" :> [abv_percent |-> 1700, cost_per_oz |-> 60]) @@
    ("Whipped Cream" :> [abv_percent |-> 0, cost_per_oz |-> 0]) @@
    ("Saffron Syrup" :> [abv_percent |-> 0, cost_per_oz |-> 3000])

\* The rows an admin submits in the ingredient inline (CocktailIngredientInline
\* fields; unit_input is one of forms.UNIT_CHOICES)
FormRows ==
    { [seq |-> 1, ingredient |-> "Amaretto", amount_input |-> 150000,
       unit_input |-> "oz", is_optional |-> FALSE],
      [seq |-> 2, ingredient |-> "Irish Cream Liqueur", amount_input |-> 150000,
       unit_input |-> "oz", is_optional |-> FALSE],
      [seq |-> 3, ingredient |-> "Whipped Cream", amount_input |-> 50000,
       unit_input |-> "dash", is_optional |-> TRUE],
      [seq |-> 1, ingredient |-> "Saffron Syrup", amount_input |-> 50,
       unit_input |-> "dash", is_optional |-> FALSE],
      [seq |-> 2, ingredient |-> "Amaretto", amount_input |-> -10000,
       unit_input |-> "oz", is_optional |-> FALSE],
      [seq |-> 2, ingredient |-> "Whipped Cream", amount_input |-> 10000,
       unit_input |-> "leaf", is_optional |-> TRUE],
      [seq |-> 1, ingredient |-> "Whipped Cream", amount_input |-> 20000,
       unit_input |-> "oz", is_optional |-> TRUE] }

\* The PricingSettings rows an admin saves: labor_cost_per_hour and
\* price_round_increment in cents, overhead_pct in percent
SettingsRows ==
    { [id |-> 1, labor_cost_per_hour |-> 200, overhead_pct |-> 30,
       price_round_increment |-> 25],
      [id |-> 1, labor_cost_per_hour |-> 2000, overhead_pct |-> 0,
       price_round_increment |-> 5] }

\* The most rows table "cocktail_ingredients" holds
MaxLines == 3

NoCall == [op |-> "none"]

\* The tables before the first request: the ingredient catalogue, no recipe
\* line, no pricing row.  Table "cocktail_ingredients" is the set of its rows
\* without the id column, which no operation of the model reads.
Init ==
    /\ ingredients = IngredientRows
    /\ cocktail_ingredients = {}
    /\ settings = <<>>
    /\ result = NoCall
    /\ conv = [called |-> FALSE]
    /\ requests = <<>>
    /\ cocktails = CocktailRows

\* DecimalField(max_digits=10, decimal_places=4) on save: the value is
\* quantized to 0.0001 (half-even) before it reaches the table
StoreDecimal4(frac) ==
    IF frac.d = OzQuantum THEN frac.n ELSE RoundHalfEven(frac.n * OzQuantum, frac.d)

\* ---------------------------------------------------------------- admin saves

\* Meta.unique_together = (("cocktail", "ingredient", "seq"),), which the
\* inline's validation enforces before save_formset runs: no row of rows has
\* the key of row
UniqueTogether(rows, row) ==
    \A r \in rows : ~(/\ r.cocktail = row.cocktail
                      /\ r.ingredient = row.ingredient
                      /\ r.seq = row.seq)

\* The instance save_formset saves for a submitted form row: the form's
\* fields, and amount_oz = _to_oz(obj.amount_input, obj.unit_input)
SavedInstance(cocktail, f) ==
    [cocktail |-> cocktail, ingredient |-> f.ingredient, seq |-> f.seq,
     amount_oz |-> StoreDecimal4(_to_oz(<<f.amount_input>>, <<f.unit_input>>)),
     unit_input |-> f.unit_input,
     amount_input |-> f.amount_input,
     is_optional |-> f.is_optional]

RECURSIVE SaveInstances(_, _, _)
\* CocktailAdmin.save_formset, the loop over formset.save(commit=False).
\* An instance is [old |-> the stored row it edits, as <<row>>, or None for a
\* new row, form |-> the submitted fields].
SaveInstances(rows, cocktail, instances) ==
    IF instances = <<>> THEN rows
    ELSE LET obj == Head(instances)
             kept == IF obj.old = None THEN rows ELSE rows \ {obj.old[1]}
         IN  SaveInstances(kept \cup {SavedInstance(cocktail, obj.form)},
                           cocktail, Tail(instances))

\* CocktailAdmin.save_formset for the inline of one cocktail: the new and
\* changed instances are saved with a fresh amount_oz, the deleted ones deleted.
save_formset(cocktail, instances, deleted_objects) ==
    /\ instances # <<>> \/ deleted_objects # {}
    /\ deleted_objects \subseteq { r \in cocktail_ingredients : r.cocktail = cocktail }
    /\ \A k \in 1..Len(instances) :
          LET obj == instances[k]
              others == IF obj.old = None THEN cocktail_ingredients
                        ELSE cocktail_ingredients \ {obj.old[1]}
          IN  /\ obj.old # None =>
                    /\ obj.old[1] \in cocktail_ingredients
                    /\ obj.old[1].cocktail = cocktail
                    /\ obj.old[1] \notin deleted_objects
              /\ UniqueTogether(others, SavedInstance(cocktail, obj.form))
    /\ LET saved == SaveInstances(cocktail_ingredients, cocktail, instances)
       IN  /\ Cardinality(saved \ deleted_objects) <= MaxLines
           /\ cocktail_ingredients' = saved \ deleted_objects
    /\ result' = NoCall
    /\ UNCHANGED <<requests, ingredients, settings, conv, cocktails>>

\* PricingSettingsAdmin (a plain ModelAdmin): the single row is saved
PricingSettingsAdmin_save(row) ==
    /\ settings' = <<row>>
    /\ result' = NoCall
    /\ UNCHANGED <<requests, ingredients, cocktail_ingredients, conv, cocktails>>

\* PricingSettingsAdmin: the row is deleted
PricingSettingsAdmin_delete ==
    /\ settings # <<>>
    /\ settings' = <<>>
    /\ result' = NoCall
    /\ UNCHANGED <<requests, ingredients, cocktail_ingredients, conv, cocktails>>

\* ---------------------------------------------------------------- cocktail saves

\* Cocktail.STATUS_CHOICES
STATUS_CHOICES == {"draft", "published", "archived"}

\* The names an admin gives a cocktail
CocktailNames == {"Blow Job", "Blow Job 2", "!!!"}

\* The slugs an admin types; the empty one leaves the slug to save_model
TypedSlugs == {"", "blow-job-2"}

\* django.utils.text.slugify on CocktailNames: lower case, runs of spaces to a
\* hyphen, every other character but letters, digits, "_" and "-" dropped
slugify(base) ==
    CASE base = "Blow Job" -> "blow-job"
      [] base = "Blow Job 2" -> "blow-job-2"
      [] base = "Negroni" -> "negroni"
      [] OTHER -> ""

\* The slugs of the rows of table "cocktails" other than the row of pk
\* instance_id (qs.exclude(pk=instance_id) when instance_id is given)
OtherSlugs(rows, instance_id) ==
    { rows[k].slug : k \in { j \in 1..Len(rows) : instance_id = None \/ j # instance_id[1] } }

RECURSIVE SlugLoop(_, _, _, _)
\* _ensure_unique_slug, the loop of lines 171-173
SlugLoop(orig, s, i, taken) ==
    IF s \in taken THEN SlugLoop(orig, orig \o "-" \o ToString(i), i + 1, taken) ELSE s

\* mutant of _ensure_unique_slug: the slug of the name, without the search
\* for a free one
EnsureUniqueSlug_NoLoop(base, instance_id) ==
    IF slugify(base) = "" THEN "item" ELSE slugify(base)

\* CocktailAdmin._ensure_unique_slug(base, instance_id=...)
_ensure_unique_slug(base, instance_id) ==
    LET s == IF slugify(base) = "" THEN "item" ELSE slugify(base)
    IN  SlugLoop(s, s, 2, OtherSlugs(cocktails, instance_id))

\* The most rows table "cocktails" holds
MaxCocktails == 2

\* CocktailAdmin.save_model for the cocktail of pk pk (None when it is added)
\* with the submitted name, slug and status: an empty slug is replaced by
\* _ensure_unique_slug(obj.name, instance_id=obj.pk), then the row is saved.
\* slug is unique=True: a save whose slug another row has raises and writes
\* nothing.  (The created_at / updated_at stamps are not part of the state.)
save_model(pk, name, slug, status) ==
    LET obj_slug == IF slug = "" THEN _ensure_unique_slug(name, pk) ELSE slug
        obj == [name |-> name, slug |-> obj_slug, status |-> status]
        raised == obj_slug \in OtherSlugs(cocktails, pk)
        saved == IF pk = None THEN Append(cocktails, obj)
                 ELSE [cocktails EXCEPT ![pk[1]] = obj]
    IN  /\ pk = None => Len(cocktails) < MaxCocktails
        /\ pk # None => pk[1] \in 1..Len(cocktails)
        /\ cocktails' = IF raised THEN cocktails ELSE saved
        /\ result' = [op |-> "save_model",
                      pk |-> IF pk = None THEN Len(cocktails) + 1 ELSE pk[1],
                      generated |-> (slug = ""), raised |-> raised]
        /\ UNCHANGED <<requests, ingredients, cocktail_ingredients, settings, conv>>

\* The admin requests that may run at the same time
Requests == {1, 2}

\* mutant of InsertCocktail: table "cocktails" has no unique index on slug
InsertCocktail_NoUniqueIndex(rows, obj) ==
    [rows |-> Append(rows, obj), raised |-> FALSE]

\* super().save_model(...) for a new object on the table rows: the INSERT,
\* which the unique index of slug (unique=True) rejects with IntegrityError
\* when a row has the slug
InsertCocktail(rows, obj) ==
    IF obj.slug \in OtherSlugs(rows, None)
    THEN [rows |-> rows, raised |-> TRUE]
    ELSE [rows |-> Append(rows, obj), raised |-> FALSE]

\* CocktailAdmin.save_model of request r for a new cocktail, lines 177-178:
\* an empty slug is replaced by _ensure_unique_slug(obj.name), which reads
\* the slugs the table holds now
save_model_check(r, name, slug) ==
    /\ requests[r].pc = "start"
    /\ requests' = [requests EXCEPT ![r] =
          [pc |-> "checked", name |-> name, typed |-> slug,
           slug |-> IF slug = "" THEN _ensure_unique_slug(name, None) ELSE slug]]
    /\ UNCHANGED <<ingredients, cocktail_ingredients, settings, result, conv, cocktails>>

\* CocktailAdmin.save_model of request r, line 184: the object is written
\* with the slug the request holds
save_model_write(r) ==
    /\ requests[r].pc = "checked"
    /\ LET obj == [name |-> requests[r].name, slug |-> requests[r].slug,
                   status |-> "draft"]
           done == InsertCocktail(cocktails, obj)
       IN  /\ cocktails' = done.rows
           /\ requests' = [requests EXCEPT ![r] =
                 [pc |-> IF done.raised THEN "raised" ELSE "saved",
                  name |-> @.name, typed |-> @.typed, slug |-> @.slug,
                  pk |-> Len(done.rows)]]
    /\ UNCHANGED <<ingredients, cocktail_ingredients, settings, result, conv>>

\* ---------------------------------------------------------------- admin/summaries.py

\* constants.GLASS_TYPE_CHOICES, four of its values
GLASS_TYPE_CHOICES == {"Highball", "Rocks", "Shot", "Coupe"}

\* What form.cleaned_data.get("glass_type", None) may be: None, the empty
\* string of an optional ChoiceField left empty, or a choice
GlassValues == {None, <<"">>} \cup { <<g>> : g \in GLASS_TYPE_CHOICES }

\* mutant of ProxyGlass: the form's value is stored as it is, an empty string
\* included
ProxyGlass_StoresEmpty(rows, pk, glass_val) ==
    IF pk \in 1..Len(rows)
    THEN [rows EXCEPT ![pk] =
            IF glass_val = None
            THEN [f \in DOMAIN @ \ {"glass_type"} |-> @[f]]
            ELSE [glass_type |-> glass_val[1]] @@ @]
    ELSE rows

\* save_model, lines 140-146, on the table rows: the Cocktail of primary key
\* pk gets glass_type = glass_val or None (NULL is a field the row lacks) and
\* is saved with update_fields=["glass_type"]; Cocktail.DoesNotExist is caught
\* and nothing is written
ProxyGlass(rows, pk, glass_val) ==
    IF pk \in 1..Len(rows)
    THEN [rows EXCEPT ![pk] =
            IF glass_val \in {None, <<"">>}
            THEN [f \in DOMAIN @ \ {"glass_type"} |-> @[f]]
            ELSE [glass_type |-> glass_val[1]] @@ @]
    ELSE rows

\* CocktailSummaryAdmin.save_model for the summary row of primary key pk;
\* super().save_model is not called, so the view is not written
CocktailSummaryAdmin_save_model(pk, glass_val) ==
    /\ cocktails' = ProxyGlass(cocktails, pk, glass_val)
    /\ result' = [op |-> "CocktailSummaryAdmin.save_model", pk |-> pk,
                  glass_val |-> glass_val, found |-> (pk \in 1..Len(cocktails))]
    /\ UNCHANGED <<requests, ingredients, cocktail_ingredients, settings, conv>>

\* ---------------------------------------------------------------- fix_blow_job.py

\* The rows Through.objects.get_or_create(cocktail=..., ingredient=...) matches
Matching(rows, cocktail, ingredient) ==
    { r \in rows : r.cocktail = cocktail /\ r.ingredient = ingredient }

\* fix_blow_job.run.upsert on the state st = [rows, raised]: get_or_create
\* raises MultipleObjectsReturned on two matches and creates the row with the
\* model's defaults on none; then seq, amount_input, is_optional and
\* unit_input = str(unit_oz) are set and the row saved.  amount_oz is not touched.
upsert(st, ing, seq, amt, garnish) ==
    LET m == Matching(st.rows, "Blow Job", ing)
        created == [cocktail |-> "Blow Job", ingredient |-> ing, seq |-> 1,
                    amount_oz |-> 0, unit_input |-> "", amount_input |-> 0,
                    is_optional |-> FALSE]
        obj == IF m = {} THEN created ELSE CHOOSE r \in m : TRUE
        saved == [obj EXCEPT !.seq = seq, !.amount_input = amt,
                             !.is_optional = garnish, !.unit_input = "oz"]
    IN  IF st.raised \/ Cardinality(m) > 1
        THEN [rows |-> st.rows, raised |-> TRUE]
        ELSE [rows |-> (st.rows \ {obj}) \cup {saved}, raised |-> FALSE]

\* has_field(model, name) of the patch scripts, on models.Ingredient: name is
\* one of its concrete fields
IngredientFields ==
    {"id", "name", "type", "abv_percent", "cost_per_oz", "is_housemade", "notes",
     "image_url"}

has_field(name) == name \in IngredientFields

\* The pks of the rows of table "cocktails" with the given name
CocktailsNamed(rows, name) == { k \in 1..Len(rows) : rows[k].name = name }

\* Cocktail.objects.get(name="Blow Job") and the three Ingredient.objects.get
\* of the fix scripts find their row (get raises DoesNotExist on none and
\* MultipleObjectsReturned on several; Ingredient.name is unique)
FixLookupsFound ==
    /\ Cardinality(CocktailsNamed(cocktails, "Blow Job")) = 1
    /\ {"Amaretto", "Irish Cream Liqueur", "Whipped Cream"} \subseteq DOMAIN ingredients

\* The ABV step of fix_blow_job.run and fix_blow_job_v2.run: the percentages
\* are written to the field "abv" when Ingredient has such a field, and
\* nothing is written when it has not
FixAbv(ings) ==
    IF has_field("abv")
    THEN [n \in DOMAIN ings |->
            IF n = "Amaretto" THEN [abv |-> 2800] @@ ings[n]
            ELSE IF n = "Irish Cream Liqueur" THEN [abv |-> 1700] @@ ings[n]
            ELSE IF n = "Whipped Cream" THEN [abv |-> 0] @@ ings[n]
            ELSE ings[n]]
    ELSE ings

\* fix_blow_job.run under @transaction.atomic: the lookups, the ABV step and
\* the three upserts, or nothing when one of them raises; the success message
\* is printed when none raised
fix_blow_job_run ==
    /\ LET s0 == [rows |-> cocktail_ingredients, raised |-> ~FixLookupsFound]
           s1 == upsert(s0, "Amaretto", 1, 5000, FALSE)
           s2 == upsert(s1, "Irish Cream Liqueur", 2, 5000, FALSE)
           s3 == upsert(s2, "Whipped Cream", 3, 0, TRUE)
       IN  /\ Cardinality(s3.rows) <= MaxLines
           /\ cocktail_ingredients' = IF s3.raised THEN cocktail_ingredients ELSE s3.rows
           /\ ingredients' = IF s3.raised THEN ingredients ELSE FixAbv(ingredients)
           /\ result' = [op |-> "fix_blow_job_run", raised |-> s3.raised]
    /\ UNCHANGED <<requests, settings, conv, cocktails>>

\* ---------------------------------------------------------------- fix_blow_job_v2.py

\* fix_blow_job_v2.run.upsert on the state st = [rows, raised]: as
\* fix_blow_job's, with unit_input = "oz" and, the unit being "oz", amount_oz
\* set to the amount as well
upsert_v2(st, ing, seq, amt, garnish) ==
    LET m == Matching(st.rows, "Blow Job", ing)
        created == [cocktail |-> "Blow Job", ingredient |-> ing, seq |-> 1,
                    amount_oz |-> 0, unit_input |-> "", amount_input |-> 0,
                    is_optional |-> FALSE]
        obj == IF m = {} THEN created ELSE CHOOSE r \in m : TRUE
        saved == [obj EXCEPT !.seq = seq, !.amount_input = amt,
                             !.is_optional = garnish, !.unit_input = "oz",
                             !.amount_oz = amt]
    IN  IF st.raised \/ Cardinality(m) > 1
        THEN [rows |-> st.rows, raised |-> TRUE]
        ELSE [rows |-> (st.rows \ {obj}) \cup {saved}, raised |-> FALSE]

\* fix_blow_job_v2.run under @transaction.atomic
fix_blow_job_v2_run ==
    /\ LET s0 == [rows |-> cocktail_ingredients, raised |-> ~FixLookupsFound]
           s1 == upsert_v2(s0, "Amaretto", 1, 5000, FALSE)
           s2 == upsert_v2(s1, "Irish Cream Liqueur", 2, 5000, FALSE)
           s3 == upsert_v2(s2, "Whipped Cream", 3, 0, TRUE)
       IN  /\ Cardinality(s3.rows) <= MaxLines
           /\ cocktail_ingredients' = IF s3.raised THEN cocktail_ingredients ELSE s3.rows
           /\ ingredients' = IF s3.raised THEN ingredients ELSE FixAbv(ingredients)
           /\ result' = [op |-> "fix_blow_job_v2_run", raised |-> s3.raised]
    /\ UNCHANGED <<requests, settings, conv, cocktails>>

\* ---------------------------------------------------------------- set_amounts.py

\* The concrete fields of models.CocktailIngredient, in declaration order,
\* with get_internal_type()
ThroughFields ==
    << [name |-> "id", type |-> "BigAutoField"],
       [name |-> "cocktail", type |-> "ForeignKey"],
       [name |-> "ingredient", type |-> "ForeignKey"],
       [name |-> "seq", type |-> "SmallIntegerField"],
       [name |-> "amount_oz", type |-> "DecimalField"],
       [name |-> "unit_input", type |-> "CharField"],
       [name |-> "amount_input", type |-> "DecimalField"],
       [name |-> "prep_note", type |-> "CharField"],
       [name |-> "is_optional", type |-> "BooleanField"] >>

\* set_amounts.candidate_amount_field(): the first preferred name that is a
\* numeric field, else the first numeric field that is no foreign key, no
\* boolean and not "id"; None when there is none
candidate_amount_field ==
    LET prefs == <<"amount_ml", "amount", "quantity_ml", "quantity", "input_amount",
                   "input_value", "value_ml", "volume_ml", "volume", "measure",
                   "portion", "value", "dose", "size", "count">>
        numeric_types == {"DecimalField", "FloatField", "IntegerField",
                          "PositiveIntegerField", "SmallIntegerField",
                          "PositiveSmallIntegerField"}
        IsPref(k) == \E f \in 1..Len(ThroughFields) :
                        /\ ThroughFields[f].name = prefs[k]
                        /\ ThroughFields[f].type \in numeric_types
        IsNumeric(f) == /\ ThroughFields[f].type \notin {"ForeignKey", "BooleanField"}
                        /\ ThroughFields[f].type \in numeric_types
                        /\ ThroughFields[f].name # "id"
    IN  IF \E k \in 1..Len(prefs) : IsPref(k)
        THEN <<prefs[CHOOSE k \in 1..Len(prefs) :
                        IsPref(k) /\ \A j \in 1..(k - 1) : ~IsPref(j)]>>
        ELSE IF \E f \in 1..Len(ThroughFields) : IsNumeric(f)
        THEN <<ThroughFields[CHOOSE f \in 1..Len(ThroughFields) :
                        IsNumeric(f) /\ \A g \in 1..(f - 1) : ~IsNumeric(g)].name>>
        ELSE None

\* set_amounts.run, one pass of its loop on the state st = [rows, raised]:
\* get_or_create, then setattr(obj, amount_field, amt) and is_optional.  amt
\* is the script's Decimal as an integer, which is what the "seq" column the
\* field choice lands on stores; a DecimalField would store amt * OzQuantum.
set_amount(st, ing, amt, garnish) ==
    LET m == Matching(st.rows, "Blow Job", ing)
        created == [cocktail |-> "Blow Job", ingredient |-> ing, seq |-> 1,
                    amount_oz |-> 0, unit_input |-> "", amount_input |-> 0,
                    is_optional |-> FALSE]
        obj == IF m = {} THEN created ELSE CHOOSE r \in m : TRUE
        amount_field == candidate_amount_field[1]
        stored == IF amount_field = "seq" THEN amt ELSE amt * OzQuantum
        saved == [obj EXCEPT ![amount_field] = stored, !.is_optional = garnish]
    IN  IF st.raised \/ Cardinality(m) > 1
        THEN [rows |-> st.rows, raised |-> TRUE]
        ELSE [rows |-> (st.rows \ {obj}) \cup {saved}, raised |-> FALSE]

\* set_amounts.run under @transaction.atomic
set_amounts_run ==
    /\ candidate_amount_field # None
    /\ {"Amaretto", "Irish Cream Liqueur", "Whipped Cream"} \subseteq DOMAIN ingredients
    /\ LET s0 == [rows |-> cocktail_ingredients, raised |-> FALSE]
           s1 == set_amount(s0, "Amaretto", 15, FALSE)
           s2 == set_amount(s1, "Irish Cream Liqueur", 15, FALSE)
           s3 == set_amount(s2, "Whipped Cream", 5, TRUE)
       IN  /\ Cardinality(s3.rows) <= MaxLines
           /\ cocktail_ingredients' = IF s3.raised THEN cocktail_ingredients ELSE s3.rows
    /\ result' = NoCall
    /\ UNCHANGED <<requests, ingredients, settings, conv, cocktails>>

\* ---------------------------------------------------------------- addnewcock.py

\* mutant of link: a link row is inserted at each call, never updated
Link_AlwaysInsert(st, ing, amount_ml, garnish) ==
    LET m == { r \in st.rows : r.cocktail = "Blow Job" /\ r.ingredient = ing }
        created == [cocktail |-> "Blow Job", ingredient |-> ing,
                    seq |-> Cardinality(m) + 1,
                    amount_oz |-> 0, unit_input |-> "ml", amount_input |-> 0,
                    is_optional |-> garnish]
    IN  [rows |-> st.rows \cup {created}, raised |-> st.raised]

\* addnewcock.upsert_blow_job.link on the state st = [rows, raised]:
\* update_or_create(cocktail, ingredient, defaults) with is_optional and
\* unit_input = str(ml_unit) in the defaults.  No candidate of amount_field is
\* a field of the model, so no amount is written.
link(st, ing, amount_ml, garnish) ==
    LET m == Matching(st.rows, "Blow Job", ing)
        created == [cocktail |-> "Blow Job", ingredient |-> ing, seq |-> 1,
                    amount_oz |-> 0, unit_input |-> "", amount_input |-> 0,
                    is_optional |-> FALSE]
        obj == IF m = {} THEN created ELSE CHOOSE r \in m : TRUE
        saved == [obj EXCEPT !.is_optional = garnish, !.unit_input = "ml"]
    IN  IF st.raised \/ Cardinality(m) > 1
        THEN [rows |-> st.rows, raised |-> TRUE]
        ELSE [rows |-> (st.rows \ {obj}) \cup {saved}, raised |-> FALSE]

\* The image URLs of the script, by their file names
BLOW_JOB_IMG == "blow_job-master.jpg"

INGR_IMG ==
    ("Amaretto" :> "amaretto_liqueur-master.webp") @@
    ("Irish Cream Liqueur" :> "irish_cream_liqueur-master.webp") @@
    ("Whipped Cream" :> "whipped-cream-master.webp")

\* upsert_blow_job.upsert_ing on the table ings: get_or_create(name=name), a
\* created row having the model's defaults (abv_percent 0, cost_per_oz 0, no
\* image); then image_url is set and saved when it is not the URL already
upsert_ing(ings, name) ==
    LET obj == IF name \in DOMAIN ings THEN ings[name]
               ELSE [abv_percent |-> 0, cost_per_oz |-> 0]
        saved == IF GetAttr(obj, "image_url") # <<INGR_IMG[name]>>
                 THEN [image_url |-> INGR_IMG[name]] @@ obj
                 ELSE obj
    IN  (name :> saved) @@ ings

\* build_required_defaults_for_cocktail() on models.Cocktail: the fields that
\* are NOT NULL without a default get "" (slug) and now (created_at,
\* updated_at, not part of the state), and none is missing; status is the
\* default the model declares
build_required_defaults_for_cocktail ==
    [required |-> [slug |-> "", status |-> "draft"], missing |-> {}]

\* Step 2 of upsert_blow_job on the table cocks: the first cocktail named
\* "Blow Job" (first() orders by pk) gets the image when it has another; when
\* there is none it is created from the required defaults, which raises when
\* a field is missing or the unique slug is taken
UpsertCocktail(cocks) ==
    LET named == CocktailsNamed(cocks, "Blow Job")
        d == build_required_defaults_for_cocktail
        created == [name |-> "Blow Job", image_url |-> BLOW_JOB_IMG] @@ d.required
    IN  IF named = {}
        THEN IF d.missing # {} \/ created.slug \in OtherSlugs(cocks, None)
             THEN [rows |-> cocks, raised |-> TRUE]
             ELSE [rows |-> Append(cocks, created), raised |-> FALSE]
        ELSE LET bj == CHOOSE k \in named : \A j \in named : k <= j
             IN  [rows |-> IF GetAttr(cocks[bj], "image_url") # <<BLOW_JOB_IMG>>
                           THEN [cocks EXCEPT ![bj] =
                                    [image_url |-> BLOW_JOB_IMG] @@ cocks[bj]]
                           ELSE cocks,
                  raised |-> FALSE]

\* The statements of upsert_blow_job in order, on the tables (ings, cocks,
\* rows): the three ingredients, the cocktail, the three links.  The tables
\* are returned as they are when the function returns or raises.
UpsertBlowJobSteps(ings, cocks, rows) ==
    LET i3 == upsert_ing(upsert_ing(upsert_ing(ings, "Amaretto"),
                                    "Irish Cream Liqueur"), "Whipped Cream")
        c == UpsertCocktail(cocks)
        s0 == [rows |-> rows, raised |-> c.raised]
        s1 == link(s0, "Amaretto", 15, FALSE)
        s2 == link(s1, "Irish Cream Liqueur", 15, FALSE)
        s3 == link(s2, "Whipped Cream", 5, TRUE)
    IN  [ingredients |-> i3, cocktails |-> c.rows, rows |-> s3.rows,
         raised |-> s3.raised]

\* mutant of upsert_blow_job_on: no transaction, what was written before the
\* exception stays
UpsertBlowJob_NoRollback(ings, cocks, rows) ==
    UpsertBlowJobSteps(ings, cocks, rows)

\* upsert_blow_job under @transaction.atomic on the tables (ings, cocks,
\* rows): the tables its statements leave, or the tables as they were when
\* one of them raised
upsert_blow_job_on(ings, cocks, rows) ==
    LET done == UpsertBlowJobSteps(ings, cocks, rows)
    IN  IF done.raised
        THEN [ingredients |-> ings, cocktails |-> cocks, rows |-> rows,
              raised |-> TRUE]
        ELSE done

\* One run of addnewcock.py: upsert_blow_job() on the tables
upsert_blow_job ==
    /\ LET done == upsert_blow_job_on(ingredients, cocktails, cocktail_ingredients)
       IN  /\ Cardinality(done.rows) <= MaxLines
           /\ ingredients' = done.ingredients
           /\ cocktails' = done.cocktails
           /\ cocktail_ingredients' = done.rows
           /\ result' = [op |-> "upsert_blow_job", raised |-> done.raised]
    /\ UNCHANGED <<requests, settings, conv>>

\* ---------------------------------------------------------------- finalize_blow_job.py

\* finalize_blow_job.pick_amount_field(): the preference list and the rule of
\* set_amounts.candidate_amount_field, on the same model
pick_amount_field == candidate_amount_field

\* finalize_blow_job.pick_ing_abv_field(): the first of the names that is a
\* numeric field of models.Ingredient (its DecimalFields are abv_percent and
\* cost_per_oz); None when there is none
pick_ing_abv_field ==
    LET names == <<"abv", "alcohol_by_volume", "alcohol", "strength", "abv_percent",
                   "alcohol_percent", "alcohol_pct">>
        numeric == {"abv_percent", "cost_per_oz"}
        Is(k) == names[k] \in IngredientFields \cap numeric
    IN  IF \E k \in 1..Len(names) : Is(k)
        THEN <<names[CHOOSE k \in 1..Len(names) : Is(k) /\ \A j \in 1..(k - 1) : ~Is(j)]>>
        ELSE None

\* The rows Ingredient.objects.exclude(abv_field=None)[:1] may return from the
\* table ings: the query has no ordering, so any row whose ABV is not NULL
AbvSamples(ings) ==
    { n \in DOMAIN ings : GetAttr(ings[n], pick_ing_abv_field[1]) # None }

\* run.get_ing(name, abv_val) on the table ings, abv_val in units of 0.01 and
\* sample the row the sample query returned (None when it returned none):
\* get_or_create, then the value is stored as given when the sample is <= 1.0
\* and otherwise times 100 when it is <= 1 itself.  The table keeps ABV in
\* units of 0.01, so a stored 0.28 is 28 and a stored 28.00 is 2800.
get_ing(ings, name, abv_val, sample) ==
    LET abv_field == pick_ing_abv_field[1]
        got == IF name \in DOMAIN ings THEN ings
               ELSE (name :> [abv_percent |-> 0, cost_per_oz |-> 0]) @@ ings
        scale_as_fraction == sample # None /\ got[sample[1]][abv_field] <= 100
        val == IF scale_as_fraction THEN abv_val
               ELSE IF abv_val <= 100 THEN abv_val * 100 ELSE abv_val
    IN  IF pick_ing_abv_field # None
        THEN (name :> ((abv_field :> val) @@ got[name])) @@ got
        ELSE got

\* sample is a row the sample query of get_ing(name, ...) can return on ings
IsSample(ings, name, sample) ==
    LET got == IF name \in DOMAIN ings THEN ings
               ELSE (name :> [abv_percent |-> 0, cost_per_oz |-> 0]) @@ ings
    IN  IF AbvSamples(got) = {} THEN sample = None
        ELSE sample # None /\ sample[1] \in AbvSamples(got)

\* run.upsert(ing, amt, garnish) on the state st = [rows, raised]:
\* get_or_create, then setattr(obj, amount_field, amt) and is_optional; no
\* unit is written, pick_unit_field() finding no foreign key
finalize_upsert(st, ing, amt, garnish) ==
    LET m == Matching(st.rows, "Blow Job", ing)
        created == [cocktail |-> "Blow Job", ingredient |-> ing, seq |-> 1,
                    amount_oz |-> 0, unit_input |-> "", amount_input |-> 0,
                    is_optional |-> FALSE]
        obj == IF m = {} THEN created ELSE CHOOSE r \in m : TRUE
        amount_field == pick_amount_field[1]
        stored == IF amount_field = "seq" THEN amt ELSE amt * OzQuantum
        saved == [obj EXCEPT ![amount_field] = stored, !.is_optional = garnish]
    IN  IF st.raised \/ Cardinality(m) > 1
        THEN [rows |-> st.rows, raised |-> TRUE]
        ELSE [rows |-> (st.rows \ {obj}) \cup {saved}, raised |-> FALSE]

\* finalize_blow_job.run under @transaction.atomic on the tables (ings, cocks,
\* rows), samples being what the three sample queries returned: the three
\* get_ing, Cocktail.objects.get_or_create(name="Blow Job") (which raises on
\* several rows, and on none because created_at has no value to insert), the
\* three upserts; the tables as they were when something raised
finalize_blow_job_on(ings, cocks, rows, samples) ==
    LET i1 == get_ing(ings, "Amaretto", 28, samples[1])
        i2 == get_ing(i1, "Irish Cream Liqueur", 17, samples[2])
        i3 == get_ing(i2, "Whipped Cream", 0, samples[3])
        s0 == [rows |-> rows,
               raised |-> Cardinality(CocktailsNamed(cocks, "Blow Job")) # 1]
        s1 == finalize_upsert(s0, "Amaretto", 15, FALSE)
        s2 == finalize_upsert(s1, "Irish Cream Liqueur", 15, FALSE)
        s3 == finalize_upsert(s2, "Whipped Cream", 5, TRUE)
    IN  IF s3.raised
        THEN [ingredients |-> ings, rows |-> rows, raised |-> TRUE]
        ELSE [ingredients |-> i3, rows |-> s3.rows, raised |-> FALSE]

\* One run of finalize_blow_job.py
finalize_blow_job_run ==
    /\ pick_amount_field # None
    /\ \E samples \in [1..3 -> {None} \cup { <<n>> : n \in DOMAIN IngredientRows }] :
        /\ IsSample(ingredients, "Amaretto", samples[1])
        /\ IsSample(get_ing(ingredients, "Amaretto", 28, samples[1]),
                    "Irish Cream Liqueur", samples[2])
        /\ IsSample(get_ing(get_ing(ingredients, "Amaretto", 28, samples[1]),
                            "Irish Cream Liqueur", 17, samples[2]),
                    "Whipped Cream", samples[3])
        /\ LET done == finalize_blow_job_on(ingredients, cocktails,
                                            cocktail_ingredients, samples)
           IN  /\ Cardinality(done.rows) <= MaxLines
               /\ ingredients' = done.ingredients
               /\ cocktail_ingredients' = done.rows
               /\ result' = [op |-> "finalize_blow_job_run", raised |-> done.raised]
    /\ UNCHANGED <<requests, settings, conv, cocktails>>

\* ---------------------------------------------------------------- backfill_amount_oz.py

\* ci.amount_oz != new_val: the stored value (in units of 0.0001) against the
\* Decimal to_oz returned, compared exactly
DiffersFrom(amount_oz, new_val) ==
    IF new_val.d = OzQuantum THEN amount_oz # new_val.n
    ELSE \/ (new_val.n * OzQuantum) % new_val.d # 0
         \/ amount_oz # (new_val.n * OzQuantum) \div new_val.d

\* mutant of BackfillWrites: only the rows whose amount_oz is still zero are
\* rewritten
BackfillWrites_OnlyZero(rows) ==
    { ci \in rows :
        /\ ci.amount_oz = 0
        /\ DiffersFrom(ci.amount_oz, to_oz(<<ci.amount_input>>, <<ci.unit_input>>)) }

\* Command.handle, the rows it writes: those whose amount_oz differs from
\* to_oz(amount_input, unit_input)
BackfillWrites(rows) ==
    { ci \in rows :
        DiffersFrom(ci.amount_oz, to_oz(<<ci.amount_input>>, <<ci.unit_input>>)) }

\* Command.handle: each differing row gets amount_oz = new_val and is saved
\* with update_fields=["amount_oz"]; the number of saves is reported
backfill_amount_oz ==
    /\ cocktail_ingredients' =
          { IF ci \in BackfillWrites(cocktail_ingredients)
            THEN [ci EXCEPT !.amount_oz =
                      StoreDecimal4(to_oz(<<ci.amount_input>>, <<ci.unit_input>>))]
            ELSE ci : ci \in cocktail_ingredients }
    /\ result' = [op |-> "backfill_amount_oz",
                  updated |-> Cardinality(BackfillWrites(cocktail_ingredients))]
    /\ UNCHANGED <<requests, ingredients, settings, conv, cocktails>>

\* ---------------------------------------------------------------- pricing.py

\* CocktailIngredient.objects.filter(cocktail=cocktail)
RowsOf(rows, cocktail) == { r \in rows : r.cocktail = cocktail }

\* The orders in which the database may return the rows of an unordered
\* queryset: every sequence that lists each row of the set once
QueryOrders(rows) ==
    { order \in [1..Cardinality(rows) -> rows] :
        \A i, j \in 1..Cardinality(rows) : i # j => order[i] # order[j] }

\* mutant of QueryRows: the queryset is not filtered by cocktail
QueryRows_AllRows(cocktail) == QueryOrders(cocktail_ingredients)

\* compute_totals, lines 31-34: what iterating the queryset
\* CocktailIngredient.objects.filter(cocktail=cocktail) may yield
QueryRows(cocktail) == QueryOrders(RowsOf(cocktail_ingredients, cocktail))

\* compute_totals, lines 42-45: the ounces of one row.  The stored amount_oz
\* when it is not zero, else the conversion of (amount_input, unit_input)
LineOz(r) ==
    LET oz == _to_decimal(GetAttr(r, "amount_oz"))
    IN  IF oz = 0
        THEN _amount_to_oz(GetAttr(r, "amount_input"), GetAttr(r, "unit_input"))
        ELSE oz

\* mutant of TotalsStep: total_oz is overwritten by the row's ounces instead
\* of being added to
TotalsStep_LastWins(acc, r, ings) ==
    LET oz == LineOz(r)
        ing == ings[r.ingredient]
        abv == _to_decimal(GetAttr(ing, "abv_percent"))
        cost_per_oz == _to_decimal(GetAttr(ing, "cost_per_oz"))
    IN  [total_oz |-> oz,
         pure_alcohol_oz |-> acc.pure_alcohol_oz + oz * abv,
         ing_cost |-> acc.ing_cost + oz * cost_per_oz]

\* compute_totals, the body of the loop (lines 41-53) for the row r, on the
\* accumulators acc:
\*   total_oz         in units of 0.0001 oz
\*   pure_alcohol_oz  in units of 0.00000001 oz   (oz * abv / 100)
\*   ing_cost         in units of 0.0001 cent     (oz * cost_per_oz)
TotalsStep(acc, r, ings) ==
    LET oz == LineOz(r)
        ing == ings[r.ingredient]
        abv == _to_decimal(GetAttr(ing, "abv_percent"))
        cost_per_oz == _to_decimal(GetAttr(ing, "cost_per_oz"))
    IN  [total_oz |-> acc.total_oz + oz,
         pure_alcohol_oz |-> acc.pure_alcohol_oz + oz * abv,
         ing_cost |-> acc.ing_cost + oz * cost_per_oz]

RECURSIVE TotalsLoop(_, _, _)
\* compute_totals, the loop of lines 40-53 over the sequence rows, in order
TotalsLoop(rows, ings, acc) ==
    IF rows = <<>> THEN acc
    ELSE TotalsLoop(Tail(rows), ings, TotalsStep(acc, Head(rows), ings))

\* compute_totals, line 55: the percentage in units of 0.01, rounded half-up
\* by line 56.  (The 28-digit quotient of line 55 and the exact quotient
\* round to the same hundredth: a quotient of these integers is either on a
\* tie or further than 1e-26 from it.)
AbvPercent(pure_alcohol_oz, total_oz) ==
    IF total_oz # 0 THEN RoundHalfUp(pure_alcohol_oz, total_oz) ELSE 0

\* compute_totals on the rows the queryset yielded: (total_oz, abv_percent,
\* ing_cost) and the unrounded sum pure_alcohol_oz
compute_totals_on(rows, ings) ==
    LET acc == TotalsLoop(rows, ings,
                          [total_oz |-> 0, pure_alcohol_oz |-> 0, ing_cost |-> 0])
    IN  [total_oz |-> acc.total_oz,
         abv_percent |-> AbvPercent(acc.pure_alcohol_oz, acc.total_oz),
         ing_cost |-> RoundHalfUp(acc.ing_cost, OzQuantum),
         pure_alcohol_oz |-> acc.pure_alcohol_oz]

\* compute_totals(cocktail) for one of the orders the queryset may yield
compute_totals_value(cocktail) ==
    compute_totals_on(CHOOSE rows \in QueryRows(cocktail) : TRUE, ingredients)

\* mutant of compute_totals: the call refreshes the cached amount_oz of the
\* rows it read
compute_totals_Caching(cocktail) ==
    /\ \E rows \in QueryRows(cocktail) :
          LET t == compute_totals_on(rows, ingredients)
          IN  result' = [op |-> "compute_totals", cocktail |-> cocktail,
                         total_oz |-> t.total_oz, abv_percent |-> t.abv_percent,
                         ing_cost |-> t.ing_cost]
    /\ cocktail_ingredients' =
          { IF r.cocktail = cocktail THEN [r EXCEPT !.amount_oz = LineOz(r)] ELSE r :
              r \in cocktail_ingredients }
    /\ UNCHANGED <<requests, ingredients, settings, conv, cocktails>>

\* A call of compute_totals(cocktail)
compute_totals(cocktail) ==
    /\ \E rows \in QueryRows(cocktail) :
          LET t == compute_totals_on(rows, ingredients)
          IN  result' = [op |-> "compute_totals", cocktail |-> cocktail,
                         total_oz |-> t.total_oz, abv_percent |-> t.abv_percent,
                         ing_cost |-> t.ing_cost]
    /\ UNCHANGED <<requests, ingredients, cocktail_ingredients, settings, conv, cocktails>>

\* PricingSettings.objects.first(): the row as an object, or None
FirstSettings == IF settings = <<>> THEN None ELSE settings[1]

\* hasattr(ps, n): None has no attribute
HasAttr(ps, n) == n \in DOMAIN ps

\* mutant of _get_ps_value: the default is a non-zero Decimal instead of
\* Decimal("0")
GetPsValue_DefaultOne(ps, names) ==
    IF \E k \in 1..Len(names) : HasAttr(ps, names[k])
    THEN ps[names[CHOOSE k \in 1..Len(names) :
                    /\ HasAttr(ps, names[k])
                    /\ \A j \in 1..(k - 1) : ~HasAttr(ps, names[j])]]
    ELSE 1

\* pricing._get_ps_value(ps, *names): the first of names that ps has, else 0
_get_ps_value(ps, names) ==
    IF \E k \in 1..Len(names) : HasAttr(ps, names[k])
    THEN ps[names[CHOOSE k \in 1..Len(names) :
                    /\ HasAttr(ps, names[k])
                    /\ \A j \in 1..(k - 1) : ~HasAttr(ps, names[j])]]
    ELSE 0

\* compute_price, lines 80-82: labor in cents, markup and overhead in percent
PriceOf(ingredients_cost, labor, markup, overhead) ==
    RoundHalfUp((ingredients_cost + labor) * (100 + markup + overhead), 100)

\* compute_price, lines 69-82, in cents, on the rows its compute_totals call
\* was yielded
compute_price_on(rows) ==
    LET ingredients_cost == compute_totals_on(rows, ingredients).ing_cost
        ps == FirstSettings
        labor == _get_ps_value(ps, <<"labor_per_cocktail", "labor", "labor_cost">>)
        markup == _get_ps_value(ps, <<"markup_percent", "markup">>)
        overhead == _get_ps_value(ps, <<"overhead_percent", "overhead">>)
    IN  PriceOf(ingredients_cost, labor, markup, overhead)

\* compute_price(cocktail) for one of the orders the queryset may yield
compute_price_value(cocktail) ==
    compute_price_on(CHOOSE rows \in QueryRows(cocktail) : TRUE)

\* A call of compute_price(cocktail)
compute_price(cocktail) ==
    /\ \E rows \in QueryRows(cocktail) :
          result' = [op |-> "compute_price", cocktail |-> cocktail,
                     price |-> compute_price_on(rows)]
    /\ UNCHANGED <<requests, ingredients, cocktail_ingredients, settings, conv, cocktails>>

\* ---------------------------------------------------------------- admin/metrics.py

\* OZ_PER_ML: Decimal("0.0338140227") in units of 10^-10
OZ_PER_ML == 338140227

\* The product (n / d) * k * 10^-10 ounces, kept as its factors: with k =
\* OZ_PER_ML it has more digits than an integer of the model holds
Scaled(n, d, k) == [n |-> n, d |-> d, times |-> k]

\* metrics._to_decimal: Decimal(str(v)), Decimal("0") when that fails, as it
\* does on None
metrics_to_decimal(v) == IF v = None THEN 0 ELSE v[1]

\* mutant of metrics_to_oz: the saved amount_oz is returned whenever it is
\* not None, positive or not
MetricsToOz_SavedIfPresent(amount_input, unit_input, amount_oz_db) ==
    LET amt_in == metrics_to_decimal(amount_input)
        unit == Lower(OrEmpty(unit_input))
    IN  IF amount_oz_db # None THEN Frac(amount_oz_db[1], OzQuantum)
        ELSE IF unit = "ml" THEN Scaled(amt_in, OzQuantum, OZ_PER_ML)
        ELSE Frac(amt_in, OzQuantum)

\* metrics._to_oz: ounces as a fraction, or as a Scaled product for ml
metrics_to_oz(amount_input, unit_input, amount_oz_db) ==
    LET amt_oz == metrics_to_decimal(amount_oz_db)
        amt_in == metrics_to_decimal(amount_input)
        unit == Lower(OrEmpty(unit_input))
    IN  IF amt_oz > 0 THEN Frac(amt_oz, OzQuantum)
        ELSE IF unit \in {"oz", "ounce", "ounces"} THEN Frac(amt_in, OzQuantum)
        ELSE IF unit = "ml" THEN Scaled(amt_in, OzQuantum, OZ_PER_ML)
        ELSE Frac(amt_in, OzQuantum)

\* ---------------------------------------------------------------- admin.py

\* admin.UNIT_TO_OZ as the module leaves it (the second assignment replaces
\* the first, which had "ml"), the factors in hundredths
UNIT_TO_OZ == [oz |-> 100, dash |-> 3, wedge |-> 0, leaf |-> 0]

\* admin._dec(x, default) on an optional number, default an optional number:
\* Decimal(default) for None, and Decimal(None) raises TypeError
_dec(x, default) ==
    IF x = None
    THEN IF default = None THEN [raised |-> TRUE]
         ELSE [raised |-> FALSE, value |-> default]
    ELSE [raised |-> FALSE, value |-> x]

\* admin._amount_oz(ci) on a line ci: what it returns, or that it raised.
\* amount_input * factor counts 0.000001 oz.
_amount_oz(ci) ==
    LET amt_oz == _dec(GetAttr(ci, "amount_oz"), None)
        amt_in == _dec(GetAttr(ci, "amount_input"), <<0>>)
        given == GetAttr(ci, "unit_input")
        unit == Lower(IF given \in {None, <<"">>} THEN "oz" ELSE given[1])
        factor == IF unit \in DOMAIN UNIT_TO_OZ THEN UNIT_TO_OZ[unit] ELSE 100
    IN  IF amt_oz.raised THEN [raised |-> TRUE]
        ELSE IF amt_oz.value # None
        THEN [raised |-> FALSE, value |-> Frac(amt_oz.value[1], OzQuantum)]
        ELSE [raised |-> FALSE,
              value |-> Frac(amt_in.value[1] * factor, OzQuantum * 100)]

\* CocktailIngredientInline._convert_units, the amount_oz it assigns to one
\* object: Decimal(str(amount_input or 0)) * factor, a unit missing from
\* UNIT_TO_OZ having the factor 1
_convert_units(amount_input, unit_input) ==
    LET unit == Lower(OrEmpty(unit_input))
        factor == IF unit \in DOMAIN UNIT_TO_OZ THEN UNIT_TO_OZ[unit] ELSE 100
        amt == IF amount_input = None THEN 0 ELSE amount_input[1]
    IN  Frac(amt * factor, OzQuantum * 100)

\* The names _markup_multiplier looks up for the raw markup, in its order
MarkupNames == <<"default_markup", "markup", "markup_percent">>

\* admin._markup_multiplier(ps) on an optional pricing object whose values
\* are in hundredths: the multiplier in units of 0.0001.  An attribute that
\* is None is a field the record lacks; a raw markup above 2 is read as a
\* percentage and divided by 100.
_markup_multiplier(ps) ==
    IF ps = None THEN 10000
    ELSE IF GetAttr(ps[1], "markup_multiplier") # None
    THEN _dec(GetAttr(ps[1], "markup_multiplier"), <<100>>).value[1] * 100
    ELSE LET Has(k) == GetAttr(ps[1], MarkupNames[k]) # None
             raw == IF \E k \in 1..Len(MarkupNames) : Has(k)
                    THEN GetAttr(ps[1], MarkupNames[
                             CHOOSE k \in 1..Len(MarkupNames) :
                                 Has(k) /\ \A j \in 1..(k - 1) : ~Has(j)])
                    ELSE None
             m == _dec(raw, <<0>>).value[1]
         IN  IF m > 100 /\ m > 200 THEN 10000 + m ELSE 10000 + m * 100

\* The raw markups an object may carry, in hundredths: 0, 0.5, 1, 2, 3, 30
MarkupValues == {0, 50, 100, 200, 300, 3000}

\* The pricing objects handed to _markup_multiplier: none, one with a
\* markup_multiplier, and objects with one or two of the raw markup fields
MarkupRows ==
    {None, <<[markup_multiplier |-> 250, markup |-> 50]>>} \cup
    { <<[default_markup |-> v]>> : v \in MarkupValues } \cup
    { <<[markup |-> v]>> : v \in MarkupValues } \cup
    { <<[markup_percent |-> v]>> : v \in MarkupValues } \cup
    { <<[markup |-> v, markup_percent |-> 3000]>> : v \in MarkupValues }

\* _markup_multiplier called on two pricing objects
MarkupCalls(ps1, ps2) ==
    /\ result' = [op |-> "_markup_multiplier", ps1 |-> ps1, ps2 |-> ps2,
                  m1 |-> _markup_multiplier(ps1), m2 |-> _markup_multiplier(ps2)]
    /\ UNCHANGED <<requests, ingredients, cocktail_ingredients, settings, conv, cocktails>>

\* ---------------------------------------------------------------- converters

\* The amounts handed to the converters, in units of 0.0001
ConvAmounts == {-10000, 0, 1, 25, 50, 333, 5000, 10000, 50000, 150000, 295735}

\* The saved amount_oz handed to the converters that take one, in units of
\* 0.0001
ConvSaved == {-2500, 0, 7500}

\* The line (amount_input, unit_input, amount_oz) as an object, a None being
\* an attribute that is NULL
LineObject(amount, unit, amount_oz_db) ==
    LET a == IF amount = None THEN <<>> ELSE [amount_input |-> amount[1]]
        u == IF unit = None THEN <<>> ELSE [unit_input |-> unit[1]]
        o == IF amount_oz_db = None THEN <<>> ELSE [amount_oz |-> amount_oz_db[1]]
    IN  a @@ u @@ o @@ [is_optional |-> FALSE]

\* One call of each unit converter on the same (amount, unit), with the saved
\* amount_oz for those that take it
Convert(amount, unit, amount_oz_db) ==
    /\ conv' = [called |-> TRUE, amount |-> amount, unit |-> unit,
                amount_oz_db |-> amount_oz_db,
                pricing |-> _amount_to_oz(amount, unit),
                backfill |-> to_oz(amount, unit),
                admin |-> _to_oz(amount, unit),
                metrics |-> metrics_to_oz(amount, unit, amount_oz_db),
                metrics_unsaved |-> metrics_to_oz(amount, unit, None),
                amount_oz |-> _amount_oz(LineObject(amount, unit, amount_oz_db)),
                inline |-> _convert_units(amount, unit)]
    /\ UNCHANGED <<requests, ingredients, cocktail_ingredients, settings, result, cocktails>>

\* ---------------------------------------------------------------- specifications

\* The inline submissions of the model: any of FormRows on the page of
\* "Blow Job", the first of them on the page of "Negroni"
Submissions ==
    { [cocktail |-> "Blow Job", form |-> f] : f \in FormRows } \cup
    { [cocktail |-> "Negroni", form |-> f] :
        f \in { g \in FormRows : g.ingredient = "Amaretto" /\ g.amount_input > 0 } }

Next ==
    \/ \E sub \in Submissions :
           save_formset(sub.cocktail, <<[old |-> None, form |-> sub.form]>>, {})
    \/ \E sub \in Submissions, old \in cocktail_ingredients :
           save_formset(sub.cocktail, <<[old |-> <<old>>, form |-> sub.form]>>, {})
    \/ \E r \in cocktail_ingredients : save_formset(r.cocktail, <<>>, {r})
    \/ \E row \in SettingsRows : PricingSettingsAdmin_save(row)
    \/ PricingSettingsAdmin_delete
    \/ fix_blow_job_run
    \/ \E c \in Cocktails : compute_totals(c)
    \/ \E c \in Cocktails : compute_price(c)

Spec == Init /\ [][Next]_vars

\* The inline submissions of SpecPatch: the Amaretto rows of FormRows, on
\* the page of the cocktail the data-patch scripts work on
PatchForms == { f \in FormRows : f.ingredient = "Amaretto" }

\* Admin inline saves, the data-patch scripts and the backfill command on the
\* lines of "Blow Job"
NextPatch ==
    \/ \E f \in PatchForms :
           save_formset("Blow Job", <<[old |-> None, form |-> f]>>, {})
    \/ \E r \in cocktail_ingredients : save_formset(r.cocktail, <<>>, {r})
    \/ fix_blow_job_run
    \/ fix_blow_job_v2_run
    \/ set_amounts_run
    \/ upsert_blow_job
    \/ backfill_amount_oz
    \/ compute_totals("Blow Job")

SpecPatch == Init /\ [][NextPatch]_vars

\* The cocktail pages of the admin: adding a cocktail and changing one
NextCocktails ==
    \/ \E name \in CocktailNames, slug \in TypedSlugs, status \in STATUS_CHOICES :
           save_model(None, name, slug, status)
    \/ \E pk \in 1..Len(cocktails), name \in CocktailNames, slug \in TypedSlugs,
          status \in STATUS_CHOICES :
           save_model(<<pk>>, name, slug, status)

\* The tables when the first cocktail has been entered and nothing else
InitCocktails ==
    /\ ingredients = IngredientRows
    /\ cocktail_ingredients = {}
    /\ settings = <<>>
    /\ result = NoCall
    /\ conv = [called |-> FALSE]
    /\ requests = <<>>
    /\ cocktails = SubSeq(CocktailRows, 1, 1)

SpecCocktails == InitCocktails /\ [][NextCocktails]_vars

NextConv ==
    \E amount \in {None} \cup {<<a>> : a \in ConvAmounts},
       unit \in {None} \cup {<<u>> : u \in UnitStrings},
       amount_oz_db \in {None} \cup {<<a>> : a \in ConvSaved} :
        Convert(amount, unit, amount_oz_db)

SpecConv == Init /\ [][NextConv]_vars

\* The summary pages of the admin: a save for the summary row of each
\* cocktail, and for one whose cocktail is gone
NextSummary ==
    \E pk \in 1..(Len(cocktails) + 1), glass_val \in GlassValues :
        CocktailSummaryAdmin_save_model(pk, glass_val)

SpecSummary == Init /\ [][NextSummary]_vars

NextMarkup == \E ps1 \in MarkupRows, ps2 \in MarkupRows : MarkupCalls(ps1, ps2)

SpecMarkup == Init /\ [][NextMarkup]_vars

\* Two add requests of the cocktail admin running at the same time, on a
\* table that holds none, one or two cocktails
InitRace ==
    /\ ingredients = IngredientRows
    /\ cocktail_ingredients = {}
    /\ settings = <<>>
    /\ result = NoCall
    /\ conv = [called |-> FALSE]
    /\ cocktails \in { SubSeq(CocktailRows, 1, k) : k \in 0..2 }
    /\ requests = [r \in Requests |-> [pc |-> "start"]]

NextRace ==
    \/ \E r \in Requests, name \in CocktailNames, slug \in TypedSlugs :
           save_model_check(r, name, slug)
    \/ \E r \in Requests : save_model_write(r)

SpecRace == InitRace /\ [][NextRace]_vars

\* The ingredient tables the seed scripts may find: the catalogue of Init, a
\* catalogue kept on the 0..1 scale, an empty one
SeedIngredients ==
    { IngredientRows,
      ("Amaretto" :> [abv_percent |-> 28, cost_per_oz |-> 50]) @@
      ("Irish Cream Liqueur" :> [abv_percent |-> 17, cost_per_oz |-> 60]) @@
      ("Whipped Cream" :> [abv_percent |-> 0, cost_per_oz |-> 0]),
      <<>> }

\* The cocktail tables the seed scripts may find: the rows of Init, one row
\* saved with an empty slug, none
SeedCocktails ==
    { CocktailRows, << [name |-> "Negroni", slug |-> "", status |-> "draft"] >>, <<>> }

InitSeed ==
    /\ ingredients \in SeedIngredients
    /\ cocktail_ingredients = {}
    /\ settings = <<>>
    /\ result = NoCall
    /\ conv = [called |-> FALSE]
    /\ requests = <<>>
    /\ cocktails \in SeedCocktails

\* The seed and patch scripts of "Blow Job", and the admin inline of its page
\* once the cocktail and the ingredient are there
NextSeed ==
    \/ upsert_blow_job
    \/ finalize_blow_job_run
    \/ fix_blow_job_run
    \/ fix_blow_job_v2_run
    \/ \E f \in PatchForms :
           /\ CocktailsNamed(cocktails, "Blow Job") # {}
           /\ f.ingredient \in DOMAIN ingredients
           /\ save_formset("Blow Job", <<[old |-> None, form |-> f]>>, {})

SpecSeed == InitSeed /\ [][NextSeed]_vars

\* Recipe lines as another writer of the unmanaged table may have left them:
\* a column that is NULL is a field the record lacks
StoredRows ==
    { [cocktail |-> "Blow Job", ingredient |-> "Amaretto", seq |-> 1,
       amount_oz |-> 150000, unit_input |-> "oz", amount_input |-> 150000,
       is_optional |-> FALSE],
      [cocktail |-> "Blow Job", ingredient |-> "Amaretto", seq |-> 2,
       unit_input |-> "oz", amount_input |-> 150000, is_optional |-> FALSE],
      [cocktail |-> "Blow Job", ingredient |-> "Irish Cream Liqueur", seq |-> 3,
       unit_input |-> "oz", is_optional |-> FALSE],
      [cocktail |-> "Blow Job", ingredient |-> "Irish Cream Liqueur", seq |-> 4,
       amount_oz |-> 0, amount_input |-> 150000, is_optional |-> FALSE],
      [cocktail |-> "Blow Job", ingredient |-> "Whipped Cream", seq |-> 5,
       is_optional |-> TRUE],
      [cocktail |-> "Blow Job", ingredient |-> "Saffron Syrup", seq |-> 6,
       unit_input |-> "cup", amount_input |-> 10000, is_optional |-> FALSE],
      [cocktail |-> "Negroni", ingredient |-> "Amaretto", seq |-> 1,
       amount_oz |-> 10000, amount_input |-> 295735, is_optional |-> FALSE],
      [cocktail |-> "Negroni", ingredient |-> "Saffron Syrup", seq |-> 2,
       amount_oz |-> 5000, unit_input |-> "dash", is_optional |-> FALSE] }

\* Ingredient catalogues of the unmanaged table: the catalogue of Init, and
\* one with NULL abv_percent and cost_per_oz columns
StoredIngredients ==
    { IngredientRows,
      ("Amaretto" :> [cost_per_oz |-> 50]) @@
      ("Irish Cream Liqueur" :> [abv_percent |-> 1700]) @@
      ("Whipped Cream" :> [abv_percent |-> 0, cost_per_oz |-> 0]) @@
      ("Saffron Syrup" :> [is_housemade |-> TRUE]) }

\* The most rows of StoredRows the table holds in InitStored
MaxStored == 2

\* The tables as found: any of the catalogues, up to MaxStored stored lines,
\* no or one pricing row
InitStored ==
    /\ ingredients \in StoredIngredients
    /\ cocktail_ingredients \in { t \in SUBSET StoredRows : Cardinality(t) <= MaxStored }
    /\ settings \in {<<>>} \cup { <<row>> : row \in SettingsRows }
    /\ result = NoCall
    /\ conv = [called |-> FALSE]
    /\ requests = <<>>
    /\ cocktails = CocktailRows

NextStored ==
    \/ \E c \in Cocktails : compute_totals(c)
    \/ \E c \in Cocktails : compute_price(c)

SpecStored == InitStored /\ [][NextStored]_vars

\* ---------------------------------------------------------------- claims

\* C1: for every amount and every unit string that is not a unit the routine
\* recognises (after lower-casing), each unit-to-ounce conversion returns 0.
C1_UnknownUnitIsZero ==
    conv.called =>
        LET u == Lower(OrEmpty(conv.unit))
        IN  /\ u \notin {"oz", "dash", "leaf", "wedge"} => conv.pricing = 0
            /\ u \notin {"oz", "ml"} => conv.backfill.n = 0 /\ conv.admin.n = 0

C1_Witness ==
    /\ conv.called
    /\ conv.unit = <<"cup">>
    /\ conv.amount = <<150000>>
    /\ conv.pricing = 0

\* C2: for every amount x, converting x with unit "oz" returns exactly x, in
\* pricing._amount_to_oz and in backfill to_oz.
C2_OzIsIdentity ==
    (conv.called /\ conv.unit = <<"oz">> /\ conv.amount # None) =>
        /\ conv.pricing = conv.amount[1]
        /\ conv.backfill = Frac(conv.amount[1], OzQuantum)

C2_Witness ==
    /\ conv.called
    /\ conv.unit = <<"oz">>
    /\ conv.amount = <<25>>
    /\ conv.pricing = 25

\* The rows compute_totals read for the call whose result is held
CallRows == RowsOf(cocktail_ingredients, result.cocktail)

RECURSIVE SumConverted(_)
\* The sum over rows of the conversion of (amount_input, unit_input)
SumConverted(rows) ==
    IF rows = {} THEN 0
    ELSE LET r == CHOOSE x \in rows : TRUE
         IN  _amount_to_oz(<<r.amount_input>>, <<r.unit_input>>) + SumConverted(rows \ {r})

\* C3: compute_totals returns total_volume_oz equal to the sum over all lines
\* of the conversion of (amount_input, unit_input), whatever the cached
\* amount_oz column holds.
C3_TotalIsSumOfConversions ==
    result.op = "compute_totals" => result.total_oz = SumConverted(CallRows)

\* C4: compute_totals returns abv_percent = pure_alcohol_oz / total_volume_oz
\* * 100 (to two decimals) when total_volume_oz > 0, and 0 in every other case.
C4_AbvZeroUnlessPositiveVolume ==
    result.op = "compute_totals" =>
        LET t == compute_totals_value(result.cocktail)
        IN  result.abv_percent =
                IF t.total_oz > 0 THEN RoundHalfUp(t.pure_alcohol_oz, t.total_oz) ELSE 0

\* The ounces of a row before any rounding, in units of 0.000001 oz: the
\* stored amount_oz when it is not zero, else amount_input times the unit's
\* multiplier
UnroundedLineOz(r) ==
    IF r.amount_oz # 0 THEN r.amount_oz * 100
    ELSE LET unit == Lower(r.unit_input)
         IN  r.amount_input *
                 (IF unit \in DOMAIN _UNIT_TO_OZ THEN _UNIT_TO_OZ[unit] ELSE 0)

RECURSIVE UnroundedCost(_, _)
\* The sum over rows of UnroundedLineOz * cost_per_oz, as [whole, part]:
\* whole counts 0.0001 cent and part counts 0.000001 cent
UnroundedCost(rows, ings) ==
    IF rows = {} THEN [whole |-> 0, part |-> 0]
    ELSE LET r == CHOOSE x \in rows : TRUE
             e == UnroundedLineOz(r)
             c == ings[r.ingredient].cost_per_oz
             rest == UnroundedCost(rows \ {r}, ings)
         IN  [whole |-> rest.whole + (e \div 100) * c,
              part |-> rest.part + (e % 100) * c]

\* UnroundedCost in cents, rounded half-up (ties away from zero) once
CostRoundedOnce(rows, ings) ==
    LET s == UnroundedCost(rows, ings)
        w == s.whole + (s.part \div 100)
        k == w \div 10000
        f == 100 * (w % 10000) + (s.part % 100)
    IN  IF k >= 0 THEN (IF f >= 500000 THEN k + 1 ELSE k)
        ELSE (IF f > 500000 THEN k + 1 ELSE k)

\* C5: compute_totals returns ingredient_cost equal to the exact sum over
\* lines of line ounces * cost_per_oz, rounded half-up to 2 decimals exactly
\* once, after the summation; nothing is rounded per line.
C5_CostRoundedOnceAfterSum ==
    result.op = "compute_totals" =>
        result.ing_cost = CostRoundedOnce(CallRows, ingredients)

\* The price the configuration row asks for, in cents: labor is the row's
\* labor cost, the percentage its overhead (the row has no markup column);
\* no row means zero labor and zero percentage
ConfiguredPrice(ingredient_cost) ==
    LET labor == IF settings = <<>> THEN 0 ELSE settings[1].labor_cost_per_hour
        pct == IF settings = <<>> THEN 0 ELSE settings[1].overhead_pct
    IN  RoundHalfUp((ingredient_cost + labor) * (100 + pct), 100)

\* C6: compute_price returns (ingredient_cost + labor_cost) * (1 + (markup +
\* overhead) / 100), rounded half-up to 2 decimals, for every pricing
\* configuration: 16.50 with labor 2.00 and 30 percent gives 24.05.
C6_PriceIsMarkedUpSubtotal ==
    result.op = "compute_price" =>
        result.price = ConfiguredPrice(compute_totals_value(result.cocktail).ing_cost)

\* C7: when the pricing configuration carries a rounding increment, the price
\* compute_price returns is a multiple of it: the multiple nearest to the
\* marked-up price of lines 80-82, ties rounded up.
C7_PriceSnappedToIncrement ==
    (result.op = "compute_price" /\ settings # <<>>) =>
        LET inc == settings[1].price_round_increment
            marked == compute_price_value(result.cocktail)
        IN  /\ result.price % inc = 0
            /\ result.price = RoundHalfUp(marked, inc) * inc

\* C8: when no pricing configuration row exists, compute_price returns the
\* recipe's ingredient_cost (labor, markup and overhead count as zero).
C8_NoSettingsPriceIsCost ==
    (result.op = "compute_price" /\ settings = <<>>) =>
        result.price = compute_totals_value(result.cocktail).ing_cost

C8_Witness ==
    /\ result.op = "compute_price"
    /\ settings = <<>>
    /\ CallRows # {}
    /\ result.price = 1650

\* C9: for a cocktail with zero recipe lines compute_totals returns
\* total_volume_oz = 0, abv_percent = 0 and ingredient_cost = 0.
C9_EmptyRecipeIsZero ==
    (result.op = "compute_totals" /\ CallRows = {}) =>
        /\ result.total_oz = 0
        /\ result.abv_percent = 0
        /\ result.ing_cost = 0

C9_Witness ==
    /\ result.op = "compute_totals"
    /\ CallRows = {}
    /\ cocktail_ingredients # {}
    /\ result.total_oz = 0

\* The recipe of the scenario: 15 oz of an ABV-28 ingredient at 0.50/oz, 15 oz
\* of an ABV-17 ingredient at 0.60/oz, and 5 dash of an ABV-0, cost-0
\* ingredient with no cached amount_oz
IsScenario(rows, ings) ==
    /\ Cardinality(rows) = 3
    /\ \E a \in rows, b \in rows, g \in rows :
          /\ a.amount_input = 150000 /\ a.unit_input = "oz"
          /\ a.amount_oz \in {0, 150000}
          /\ ings[a.ingredient] = [abv_percent |-> 2800, cost_per_oz |-> 50]
          /\ b.amount_input = 150000 /\ b.unit_input = "oz"
          /\ b.amount_oz \in {0, 150000}
          /\ ings[b.ingredient] = [abv_percent |-> 1700, cost_per_oz |-> 60]
          /\ g.amount_input = 50000 /\ g.unit_input = "dash"
          /\ g.amount_oz = 0
          /\ ings[g.ingredient] = [abv_percent |-> 0, cost_per_oz |-> 0]

\* C10: for the scenario recipe compute_totals returns total_volume_oz = 30,
\* abv_percent = 22.5 and ingredient_cost = 16.50.
C10_ScenarioTotals ==
    (result.op = "compute_totals" /\ IsScenario(CallRows, ingredients)) =>
        /\ result.total_oz = 300000
        /\ result.abv_percent = 2250
        /\ result.ing_cost = 1650

\* C11: whenever every ingredient's abv_percent lies in [0, 100], the
\* abv_percent compute_totals returns lies in [0, 100], whatever the lines'
\* amounts and cached amount_oz values are.
C11_AbvWithinRange ==
    (/\ result.op = "compute_totals"
     /\ \A i \in DOMAIN ingredients :
           ingredients[i].abv_percent >= 0 /\ ingredients[i].abv_percent <= 10000) =>
        result.abv_percent >= 0 /\ result.abv_percent <= 10000

\* The line r with zero in place of each missing amount and the empty string
\* in place of a missing unit
ZeroFilledRow(r) ==
    [cocktail |-> r.cocktail, ingredient |-> r.ingredient, seq |-> r.seq,
     amount_oz |-> IF "amount_oz" \in DOMAIN r THEN r.amount_oz ELSE 0,
     unit_input |-> IF "unit_input" \in DOMAIN r THEN r.unit_input ELSE "",
     amount_input |-> IF "amount_input" \in DOMAIN r THEN r.amount_input ELSE 0]

\* The catalogue with zero in place of each missing ABV and cost
ZeroFilledIngredients ==
    [i \in DOMAIN ingredients |->
        [abv_percent |-> IF "abv_percent" \in DOMAIN ingredients[i]
                         THEN ingredients[i].abv_percent ELSE 0,
         cost_per_oz |-> IF "cost_per_oz" \in DOMAIN ingredients[i]
                         THEN ingredients[i].cost_per_oz ELSE 0]]

\* The totals of the call's lines once every missing value is zero
ZeroFilledTotals ==
    compute_totals_on(CHOOSE rows \in QueryOrders({ZeroFilledRow(r) : r \in CallRows}) : TRUE,
                      ZeroFilledIngredients)

\* C12: compute_totals and compute_price return a complete result for every
\* stored line, also when its amount, unit, cached amount_oz, ingredient ABV
\* or ingredient cost is missing or not a known unit: the result is the one
\* obtained with zero in place of each such value.
C12_MissingValuesCountAsZero ==
    /\ result.op = "compute_totals" =>
          /\ result.total_oz = ZeroFilledTotals.total_oz
          /\ result.abv_percent = ZeroFilledTotals.abv_percent
          /\ result.ing_cost = ZeroFilledTotals.ing_cost
    /\ result.op = "compute_price" =>
          result.price = PriceOf(ZeroFilledTotals.ing_cost, 0, 0, 0)

C12_Witness ==
    /\ result.op = "compute_price"
    /\ \E r \in CallRows :
          /\ "amount_oz" \notin DOMAIN r
          /\ "abv_percent" \notin DOMAIN ingredients[r.ingredient]
    /\ \E r \in CallRows : "unit_input" \notin DOMAIN r
    /\ result.price > 0

\* C13: compute_totals is deterministic: on the same lines, ingredients and
\* pricing rows it returns the same (total_volume_oz, abv_percent,
\* ingredient_cost) in whatever order the lines are read.
C13_TotalsIndependentOfOrder ==
    result.op = "compute_totals" =>
        \A rows \in QueryOrders(CallRows) :
            LET t == compute_totals_on(rows, ingredients)
            IN  /\ result.total_oz = t.total_oz
                /\ result.abv_percent = t.abv_percent
                /\ result.ing_cost = t.ing_cost

C13_Witness ==
    /\ result.op = "compute_totals"
    /\ Cardinality(CallRows) = 3
    /\ result.total_oz = 301500

\* C14: a call of compute_totals or compute_price changes no stored row: the
\* cocktails, the lines (with their cached amount_oz), the ingredients and the
\* pricing row are the same after the call as before.
C14_ComputeChangesNoRow ==
    [][result'.op \in {"compute_totals", "compute_price"} =>
          UNCHANGED <<cocktails, cocktail_ingredients, ingredients, settings>>]_vars

C14_Witness ==
    /\ result.op = "compute_price"
    /\ settings # <<>>
    /\ \E r \in CallRows : r.amount_oz = 0 /\ LineOz(r) # 0

\* C15: in every state reached by admin inline saves, data-patch script runs
\* and backfill runs, each line's stored amount_oz is the conversion of its
\* current (amount_input, unit_input).
C15_AmountOzIsConversion ==
    \A r \in cocktail_ingredients :
        r.amount_oz = StoreDecimal4(_to_oz(<<r.amount_input>>, <<r.unit_input>>))

\* C16: in every reachable state no two lines of the same cocktail carry the
\* same sequence number seq.
C16_SeqUniquePerCocktail ==
    \A r1, r2 \in cocktail_ingredients :
        (r1.cocktail = r2.cocktail /\ r1.seq = r2.seq) => r1 = r2

\* The columns of a line other than amount_oz
OtherColumns(ci) ==
    [cocktail |-> ci.cocktail, ingredient |-> ci.ingredient, seq |-> ci.seq,
     unit_input |-> ci.unit_input, amount_input |-> ci.amount_input,
     is_optional |-> ci.is_optional]

\* A run of the backfill command leaves every column but amount_oz, every
\* ingredient and the pricing row as they were
BackfillFrame ==
    /\ { OtherColumns(ci) : ci \in cocktail_ingredients' } =
           { OtherColumns(ci) : ci \in cocktail_ingredients }
    /\ Cardinality(cocktail_ingredients') = Cardinality(cocktail_ingredients)
    /\ UNCHANGED <<ingredients, settings, cocktails>>

\* C19 (as stated): after the backfill command completes every line has
\* amount_oz equal to to_oz(amount_input, unit_input), and every other column
\* of every line is unchanged.
C19_BackfillStoresToOz ==
    [][result'.op = "backfill_amount_oz" =>
          /\ \A ci \in cocktail_ingredients' :
                ~DiffersFrom(ci.amount_oz, to_oz(<<ci.amount_input>>, <<ci.unit_input>>))
          /\ BackfillFrame]_vars

\* C19 (amended): after the backfill command completes every line has
\* amount_oz equal to to_oz(amount_input, unit_input) rounded to the four
\* decimals of the column, and every other column of every line is unchanged.
C19_BackfillStoresRoundedToOz ==
    [][result'.op = "backfill_amount_oz" =>
          /\ \A ci \in cocktail_ingredients' :
                ci.amount_oz =
                    StoreDecimal4(to_oz(<<ci.amount_input>>, <<ci.unit_input>>))
          /\ BackfillFrame]_vars

C19_Witness ==
    /\ result.op = "backfill_amount_oz"
    /\ result.updated = 1
    /\ Cardinality(cocktail_ingredients) = 3
    /\ \E ci \in cocktail_ingredients :
          ci.unit_input = "ml" /\ ci.amount_input = 150000 /\ ci.amount_oz = 5072

\* The lines whose amount_oz differs from to_oz(amount_input, unit_input)
Differing(rows) ==
    { ci \in rows :
        DiffersFrom(ci.amount_oz, to_oz(<<ci.amount_input>>, <<ci.unit_input>>)) }

\* C20: the backfill command reports the number of lines whose amount_oz
\* differed from to_oz(amount_input, unit_input) before the run, and once a
\* run has completed no line differs any more, so that a second run right
\* after it writes no line and reports 0.
C20_BackfillIdempotentExactCount ==
    /\ [][result'.op = "backfill_amount_oz" =>
             result'.updated = Cardinality(Differing(cocktail_ingredients))]_vars
    /\ [](result.op = "backfill_amount_oz" => Differing(cocktail_ingredients) = {})

\* C17: after any sequence of CocktailAdmin.save_model calls no two cocktails
\* share a slug, and a cocktail saved with an empty slug is saved (the save
\* does not fail on the slug) with a non-empty slug that no other cocktail has.
C17_SlugsUnique ==
    /\ \A j, k \in 1..Len(cocktails) : cocktails[j].slug = cocktails[k].slug => j = k
    /\ (result.op = "save_model" /\ result.generated) =>
          /\ ~result.raised
          /\ cocktails[result.pk].slug # ""
          /\ cocktails[result.pk].slug \notin OtherSlugs(cocktails, <<result.pk>>)

C17_Witness ==
    /\ result.op = "save_model"
    /\ result.generated
    /\ result.pk = 2
    /\ cocktails[1].slug = "blow-job"
    /\ cocktails[2].name = "Blow Job"
    /\ cocktails[2].slug = "blow-job-2"

\* The place of a status in the lifecycle draft, published, archived
StatusRank(status) ==
    CASE status = "draft" -> 1
      [] status = "published" -> 2
      [] status = "archived" -> 3

\* C18: a cocktail's status is always one of draft, published and archived, a
\* new cocktail starts as draft, and no operation moves a status backwards
\* (published to draft, or archived to published or draft).
C18_StatusLifecycle ==
    /\ [](\A k \in 1..Len(cocktails) : cocktails[k].status \in STATUS_CHOICES)
    /\ [][/\ \A k \in 1..Len(cocktails) :
                StatusRank(cocktails'[k].status) >= StatusRank(cocktails[k].status)
          /\ \A k \in (Len(cocktails) + 1)..Len(cocktails') :
                cocktails'[k].status = "draft"]_vars

\* ---------------------------------------------------------------- seed scripts

BlowJobIngredients == {"Amaretto", "Irish Cream Liqueur", "Whipped Cream"}

C22_MetricsToOz ==
    conv.called =>
        LET saved == conv.amount_oz_db
            unit == Lower(OrEmpty(conv.unit))
        IN  /\ (saved # None /\ saved[1] > 0) =>
                  conv.metrics = Frac(saved[1], OzQuantum)
            /\ (~(saved # None /\ saved[1] > 0) /\ conv.amount # None) =>
                  /\ unit \in {"oz", "ounce", "ounces"} =>
                        conv.metrics = Frac(conv.amount[1], OzQuantum)
                  /\ unit = "ml" =>
                        conv.metrics = Scaled(conv.amount[1], OzQuantum, OZ_PER_ML)
                  /\ unit \notin {"oz", "ounce", "ounces", "ml"} =>
                        conv.metrics = Frac(conv.amount[1], OzQuantum)

\* A line of 15 ml whose saved amount_oz is negative has been converted from
\* its input
C22_Witness ==
    /\ conv.called
    /\ conv.amount = <<150000>>
    /\ conv.unit = <<"ml">>
    /\ conv.amount_oz_db = <<-2500>>
    /\ conv.metrics = Scaled(150000, OzQuantum, OZ_PER_ML)

\* C23: admin._amount_oz returns the line's amount_oz when the line has one,
\* and for a line without amount_oz it does not fail but returns amount_input
\* times the ounce factor of unit_input (UNIT_TO_OZ, 1 for a unit it lacks,
\* "oz" for an empty unit)
C23_AmountOzFallsBack ==
    conv.called =>
        /\ conv.amount_oz_db # None =>
              /\ ~conv.amount_oz.raised
              /\ conv.amount_oz.value = Frac(conv.amount_oz_db[1], OzQuantum)
        /\ conv.amount_oz_db = None =>
              /\ ~conv.amount_oz.raised
              /\ conv.amount # None =>
                    LET given == OrEmpty(conv.unit)
                        unit == Lower(IF given = "" THEN "oz" ELSE given)
                        factor == IF unit \in DOMAIN UNIT_TO_OZ
                                  THEN UNIT_TO_OZ[unit] ELSE 100
                    IN  conv.amount_oz.value =
                            Frac(conv.amount[1] * factor, OzQuantum * 100)

\* ---------------------------------------------------------------- summary admin

\* C24: CocktailSummaryAdmin.save_model changes nothing but the glass_type of
\* the Cocktail with the summary's primary key, which becomes the form's
\* value, NULL for an empty one; every other field of that row, every other
\* row and every other table stay, and without such a Cocktail nothing changes
C24_SummarySaveWritesGlassTypeOnly ==
    [][result'.op = "CocktailSummaryAdmin.save_model" =>
          LET pk == result'.pk
              glass_val == result'.glass_val
          IN  /\ UNCHANGED <<ingredients, cocktail_ingredients, settings>>
              /\ Len(cocktails') = Len(cocktails)
              /\ \A k \in 1..Len(cocktails) :
                    \A f \in (DOMAIN cocktails[k] \cup DOMAIN cocktails'[k]) :
                        (k # pk \/ f # "glass_type") =>
                            GetAttr(cocktails'[k], f) = GetAttr(cocktails[k], f)
              /\ pk \in 1..Len(cocktails) =>
                    GetAttr(cocktails'[pk], "glass_type") =
                        IF glass_val \in {None, <<"">>} THEN None ELSE glass_val
              /\ pk \notin 1..Len(cocktails) => cocktails' = cocktails]_vars

\* The glass of cocktail 1 has been set and the glass of cocktail 2 has just
\* been emptied
C24_Witness ==
    /\ result.op = "CocktailSummaryAdmin.save_model"
    /\ result.pk = 2 /\ result.glass_val = <<"">>
    /\ GetAttr(cocktails[2], "glass_type") = None
    /\ GetAttr(cocktails[1], "glass_type") = <<"Shot">>
    /\ cocktails[1].slug = "blow-job" /\ cocktails[2].slug = "negroni"

\* ---------------------------------------------------------------- ABV of the seeded ingredients

\* C25: after fix_blow_job.run() or fix_blow_job_v2.run() has completed and
\* printed its success message, the ABV stored for Amaretto, Irish Cream
\* Liqueur and Whipped Cream is 28, 17 and 0 percent
C25_FixStoresAbv ==
    (result.op \in {"fix_blow_job_run", "fix_blow_job_v2_run"} /\ ~result.raised) =>
        /\ GetAttr(ingredients["Amaretto"], "abv_percent") = <<2800>>
        /\ GetAttr(ingredients["Irish Cream Liqueur"], "abv_percent") = <<1700>>
        /\ GetAttr(ingredients["Whipped Cream"], "abv_percent") = <<0>>

\* C26: after finalize_blow_job.run() has completed, the ABV stored for
\* Amaretto is 28 and for Irish Cream Liqueur 17, on the percent scale,
\* whatever the ingredients table held before
C26_FinalizeStoresPercent ==
    (result.op = "finalize_blow_job_run" /\ ~result.raised) =>
        /\ GetAttr(ingredients["Amaretto"], "abv_percent") = <<2800>>
        /\ GetAttr(ingredients["Irish Cream Liqueur"], "abv_percent") = <<1700>>

\* C27: a run of addnewcock.upsert_blow_job that raises leaves the ingredient,
\* cocktail and link tables as they were before the call
C27_UpsertAllOrNothing ==
    [][(result'.op = "upsert_blow_job" /\ result'.raised) =>
          UNCHANGED <<ingredients, cocktails, cocktail_ingredients>>]_vars

\* A run has raised on creating the cocktail, after its three get_or_create
\* of ingredients on an empty ingredients table
C27_Witness ==
    /\ result.op = "upsert_blow_job" /\ result.raised
    /\ ingredients = <<>>
    /\ Len(cocktails) = 1 /\ cocktails[1].slug = ""
    /\ UpsertBlowJobSteps(ingredients, cocktails, cocktail_ingredients).raised
    /\ DOMAIN UpsertBlowJobSteps(ingredients, cocktails,
                                 cocktail_ingredients).ingredients = BlowJobIngredients

RECURSIVE Gcd(_, _)

Gcd(a, b) == IF b = 0 THEN a ELSE Gcd(b, a % b)

\* Two ounce values are the same number.  Fractions are compared in lowest
\* terms; a Scaled product equals a fraction only when both are zero, since
\* 0.0338140227 is neither 1 nor 1 / 29.5735 nor 0.
SameOz(x, y) ==
    IF x.n = 0 \/ y.n = 0 THEN x.n = y.n
    ELSE IF "times" \in DOMAIN x \/ "times" \in DOMAIN y THEN x = y
    ELSE LET gx == Gcd(Abs(x.n), x.d)
             gy == Gcd(Abs(y.n), y.d)
         IN  /\ x.n \div gx = y.n \div gy
             /\ x.d \div gx = y.d \div gy

\* C28: on the same amount and unit string, pricing._amount_to_oz, backfill
\* to_oz, admin/cocktails._to_oz, metrics._to_oz without a saved amount_oz and
\* CocktailIngredientInline._convert_units return the same number of ounces
C28_ConvertersAgree ==
    (conv.called /\ conv.amount # None /\ conv.unit # None) =>
        /\ SameOz(Frac(conv.pricing, OzQuantum), conv.backfill)
        /\ SameOz(conv.backfill, conv.admin)
        /\ SameOz(conv.admin, conv.metrics_unsaved)
        /\ SameOz(conv.metrics_unsaved, conv.inline)

\* ---------------------------------------------------------------- markup

\* The raw markup of a pricing object: its first raw markup field
RawMarkup(ps) ==
    IF "default_markup" \in DOMAIN ps[1] THEN ps[1].default_markup
    ELSE IF "markup" \in DOMAIN ps[1] THEN ps[1].markup
    ELSE ps[1].markup_percent

HasRawMarkupOnly(ps) ==
    /\ ps # None
    /\ "markup_multiplier" \notin DOMAIN ps[1]

\* C29: for two pricing objects without markup_multiplier whose raw markups
\* are m1 <= m2, both non-negative, the multiplier of the first is not
\* greater than the multiplier of the second
C29_MarkupMonotone ==
    (/\ result.op = "_markup_multiplier"
     /\ HasRawMarkupOnly(result.ps1) /\ HasRawMarkupOnly(result.ps2)
     /\ 0 <= RawMarkup(result.ps1)
     /\ RawMarkup(result.ps1) <= RawMarkup(result.ps2)) =>
        result.m1 <= result.m2

\* ---------------------------------------------------------------- concurrent saves

====
